---- MODULE Spec2Model ----
(***************************************************************************)
(* State-machine model of the ERC-20 ledger contract src/erc20/lib.rs.     *)
(* The storage struct Erc20 is the state; the constructor gives Init and   *)
(* each message (transfer, approve, transfer_from and the three queries)   *)
(* is one atomic action, as messages run one at a time against storage.    *)
(***************************************************************************)
EXTENDS Integers, Sequences, FiniteSets, TLC

(* ------------------------------ bounds --------------------------------- *)
\* Number of bits of the modelled Balance type (u128 in the contract).
Width == 2
\* Number of distinct account identities besides the zero identity.
NumAccounts == 2
\* Number of messages executed after construction.
MaxOps == 2

RECURSIVE Pow2(_)
Pow2(n) == IF n = 0 THEN 1 ELSE 2 * Pow2(n - 1)

\* Balance: every value of the fixed-width unsigned type.
Modulus == Pow2(Width)
Balance == 0 .. (Modulus - 1)

\* AccountId::default() is the all-zero identity; it is an ordinary key.
ZeroAccount == 0
AccountId == 0 .. NumAccounts

(* ------------------------- ink::storage::Mapping ----------------------- *)
\* A Mapping is a partial function: its DOMAIN is the set of stored keys.
None == [some |-> FALSE, v |-> 0]
Some(x) == [some |-> TRUE, v |-> x]
EmptyMapping == [k \in {} |-> 0]
get(m, k) == IF k \in DOMAIN m THEN Some(m[k]) ELSE None
insert(m, k, x) == [y \in (DOMAIN m) \cup {k} |-> IF y = k THEN x ELSE m[y]]
unwrap_or_default(o) == IF o.some THEN o.v ELSE 0

(* ------------------------------ events --------------------------------- *)
TransferEvent(from, to, value) ==
  [event |-> "Transfer", from |-> from, to |-> to, value |-> value]
ApprovalEvent(owner, spender, value) ==
  [event |-> "Approval", owner |-> owner, spender |-> spender, value |-> value]

(* ------------------------------ results -------------------------------- *)
Ok == "Ok"
InsufficientBalance == "InsufficientBalance"
InsufficientAllowance == "InsufficientAllowance"
\* An addition that leaves the range of Balance panics in a build with
\* overflow checks; the message traps and the host discards its writes.
Panic == "Panic"

VARIABLES total_supply, balances, allowances, events, ctor, pre, last, nops,
          expected, audit

vars == <<total_supply, balances, allowances, events, ctor, pre, last, nops,
          expected, audit>>

\* The storage struct, as the messages see it through self.
Self == [total_supply |-> total_supply, balances |-> balances,
         allowances |-> allowances]

\* What a message hands back: the storage after it, the events it emitted
\* (in order), its return value.
Outcome(storage, emitted, result, value) ==
  [storage |-> storage, emitted |-> emitted, result |-> result, value |-> value]

(* ------------------------------ queries -------------------------------- *)
total_supply_msg(self) == self.total_supply

\* Variant: an account without an entry is reported as holding 1.
balance_of_AbsentIsOne(self, account) ==
  LET r == get(self.balances, account)
  IN  IF r.some THEN r.v ELSE 1

balance_of(self, account) ==
  LET r == get(self.balances, account)
  IN  IF r.some THEN r.v ELSE 0

allowance(self, owner, spender) ==
  unwrap_or_default(get(self.allowances, <<owner, spender>>))

(* ----------------------------- constructor ----------------------------- *)
\* Variant: the construction event names the caller as its source.
new_EventFromCaller(caller, supply) ==
  LET bal == insert(EmptyMapping, caller, supply)
  IN  Outcome([total_supply |-> supply, balances |-> bal,
               allowances |-> EmptyMapping],
              <<TransferEvent(caller, caller, supply)>>, Ok, 0)

new(caller, supply) ==
  LET bal == insert(EmptyMapping, caller, supply)
  IN  Outcome([total_supply |-> supply, balances |-> bal,
               allowances |-> EmptyMapping],
              <<TransferEvent(ZeroAccount, caller, supply)>>, Ok, 0)

(* ------------------------------ messages ------------------------------- *)
\* a + b on the fixed-width type: the set of results the builds can give.
\* In range there is one; out of range a build with overflow checks panics
\* and a build without them wraps.
Add(a, b) ==
  IF a + b < Modulus
  THEN {[panic |-> FALSE, v |-> a + b]}
  ELSE {[panic |-> TRUE, v |-> 0], [panic |-> FALSE, v |-> (a + b) % Modulus]}

\* Variant: the sender is never debited.
transfer_NoDebit(self, caller, to, amount) ==
  LET from == caller
      from_balance == unwrap_or_default(get(self.balances, from))
  IN  IF from_balance < amount
      THEN {Outcome(self, <<>>, InsufficientBalance, 0)}
      ELSE LET to_balance == unwrap_or_default(get(self.balances, to))
           IN  {IF sum.panic
                THEN Outcome(self, <<>>, Panic, 0)
                ELSE Outcome([self EXCEPT !.balances =
                                insert(self.balances, to, sum.v)],
                             <<TransferEvent(from, to, amount)>>, Ok, 0)
                  : sum \in Add(to_balance, amount)}

\* Variant: the guard reads the recipient's balance instead of the sender's.
transfer_GuardOnRecipient(self, caller, to, amount) ==
  LET from == caller
      from_balance == unwrap_or_default(get(self.balances, from))
      guard_balance == unwrap_or_default(get(self.balances, to))
  IN  IF guard_balance < amount
      THEN {Outcome(self, <<>>, InsufficientBalance, 0)}
      ELSE LET b1 == insert(self.balances, from, from_balance - amount)
               to_balance == unwrap_or_default(get(b1, to))
           IN  {IF sum.panic
                THEN Outcome(self, <<>>, Panic, 0)
                ELSE Outcome([self EXCEPT !.balances = insert(b1, to, sum.v)],
                             <<TransferEvent(from, to, amount)>>, Ok, 0)
                  : sum \in Add(to_balance, amount)}

\* Variant: the guard is from_balance <= amount.
transfer_StrictGuard(self, caller, to, amount) ==
  LET from == caller
      from_balance == unwrap_or_default(get(self.balances, from))
  IN  IF from_balance <= amount
      THEN {Outcome(self, <<>>, InsufficientBalance, 0)}
      ELSE LET b1 == insert(self.balances, from, from_balance - amount)
               to_balance == unwrap_or_default(get(b1, to))
           IN  {IF sum.panic
                THEN Outcome(self, <<>>, Panic, 0)
                ELSE Outcome([self EXCEPT !.balances = insert(b1, to, sum.v)],
                             <<TransferEvent(from, to, amount)>>, Ok, 0)
                  : sum \in Add(to_balance, amount)}

\* Variant: the recipient's balance is read before the debit is written.
transfer_StaleCredit(self, caller, to, amount) ==
  LET from == caller
      from_balance == unwrap_or_default(get(self.balances, from))
      to_balance == unwrap_or_default(get(self.balances, to))
  IN  IF from_balance < amount
      THEN {Outcome(self, <<>>, InsufficientBalance, 0)}
      ELSE LET b1 == insert(self.balances, from, from_balance - amount)
           IN  {IF sum.panic
                THEN Outcome(self, <<>>, Panic, 0)
                ELSE Outcome([self EXCEPT !.balances = insert(b1, to, sum.v)],
                             <<TransferEvent(from, to, amount)>>, Ok, 0)
                  : sum \in Add(to_balance, amount)}

\* Variant: the sender needs an allowance towards the recipient.
transfer_NeedsAllowance(self, caller, to, amount) ==
  LET from == caller
      from_balance == unwrap_or_default(get(self.balances, from))
  IN  IF allowance(self, from, to) < amount
      THEN {Outcome(self, <<>>, InsufficientAllowance, 0)}
      ELSE IF from_balance < amount
      THEN {Outcome(self, <<>>, InsufficientBalance, 0)}
      ELSE LET b1 == insert(self.balances, from, from_balance - amount)
               to_balance == unwrap_or_default(get(b1, to))
           IN  {IF sum.panic
                THEN Outcome(self, <<>>, Panic, 0)
                ELSE Outcome([self EXCEPT !.balances = insert(b1, to, sum.v)],
                             <<TransferEvent(from, to, amount)>>, Ok, 0)
                  : sum \in Add(to_balance, amount)}

transfer(self, caller, to, amount) ==
  LET from == caller
      from_balance == unwrap_or_default(get(self.balances, from))
  IN  IF from_balance < amount
      THEN {Outcome(self, <<>>, InsufficientBalance, 0)}
      ELSE LET b1 == insert(self.balances, from, from_balance - amount)
               to_balance == unwrap_or_default(get(b1, to))
           IN  {IF sum.panic
                THEN Outcome(self, <<>>, Panic, 0)
                ELSE Outcome([self EXCEPT !.balances = insert(b1, to, sum.v)],
                             <<TransferEvent(from, to, amount)>>, Ok, 0)
                  : sum \in Add(to_balance, amount)}

\* Variant: the allowance is checked but never written back.
transfer_from_KeepsAllowance(self, caller, from, to, amount) ==
  LET caller_allowance == allowance(self, from, caller)
  IN  IF caller_allowance < amount
      THEN {Outcome(self, <<>>, InsufficientAllowance, 0)}
      ELSE LET from_balance == balance_of(self, from)
           IN  IF from_balance < amount
               THEN {Outcome(self, <<>>, InsufficientBalance, 0)}
               ELSE LET s2 == [self EXCEPT !.balances =
                                 insert(self.balances, from, from_balance - amount)]
                        to_balance == balance_of(s2, to)
                    IN  {IF sum.panic
                         THEN Outcome(self, <<>>, Panic, 0)
                         ELSE Outcome([s2 EXCEPT !.balances =
                                         insert(s2.balances, to, sum.v)],
                                      <<TransferEvent(from, to, amount)>>, Ok, 0)
                           : sum \in Add(to_balance, amount)}

\* Variant: the balance is checked before the allowance.
transfer_from_BalanceFirst(self, caller, from, to, amount) ==
  LET caller_allowance == allowance(self, from, caller)
      from_balance == balance_of(self, from)
  IN  IF from_balance < amount
      THEN {Outcome(self, <<>>, InsufficientBalance, 0)}
      ELSE IF caller_allowance < amount
      THEN {Outcome(self, <<>>, InsufficientAllowance, 0)}
      ELSE LET s1 == [self EXCEPT !.allowances =
                        insert(self.allowances, <<from, caller>>,
                               caller_allowance - amount)]
               s2 == [s1 EXCEPT !.balances =
                        insert(s1.balances, from, from_balance - amount)]
               to_balance == balance_of(s2, to)
           IN  {IF sum.panic
                THEN Outcome(self, <<>>, Panic, 0)
                ELSE Outcome([s2 EXCEPT !.balances =
                                insert(s2.balances, to, sum.v)],
                             <<TransferEvent(from, to, amount)>>, Ok, 0)
                  : sum \in Add(to_balance, amount)}

\* Variant: the allowance is written back under (caller, from).
transfer_from_WrongKey(self, caller, from, to, amount) ==
  LET caller_allowance == allowance(self, from, caller)
  IN  IF caller_allowance < amount
      THEN {Outcome(self, <<>>, InsufficientAllowance, 0)}
      ELSE LET s1 == [self EXCEPT !.allowances =
                        insert(self.allowances, <<caller, from>>,
                               caller_allowance - amount)]
               from_balance == balance_of(s1, from)
           IN  IF from_balance < amount
               THEN {Outcome(s1, <<>>, InsufficientBalance, 0)}
               ELSE LET s2 == [s1 EXCEPT !.balances =
                                 insert(s1.balances, from, from_balance - amount)]
                        to_balance == balance_of(s2, to)
                    IN  {IF sum.panic
                         THEN Outcome(self, <<>>, Panic, 0)
                         ELSE Outcome([s2 EXCEPT !.balances =
                                         insert(s2.balances, to, sum.v)],
                                      <<TransferEvent(from, to, amount)>>, Ok, 0)
                           : sum \in Add(to_balance, amount)}

\* Variant: the allowance guard is caller_allowance <= amount.
transfer_from_LooseAllowance(self, caller, from, to, amount) ==
  LET caller_allowance == allowance(self, from, caller)
  IN  IF caller_allowance <= amount
      THEN {Outcome(self, <<>>, InsufficientAllowance, 0)}
      ELSE LET s1 == [self EXCEPT !.allowances =
                        insert(self.allowances, <<from, caller>>,
                               caller_allowance - amount)]
               from_balance == balance_of(s1, from)
           IN  IF from_balance < amount
               THEN {Outcome(s1, <<>>, InsufficientBalance, 0)}
               ELSE LET s2 == [s1 EXCEPT !.balances =
                                 insert(s1.balances, from, from_balance - amount)]
                        to_balance == balance_of(s2, to)
                    IN  {IF sum.panic
                         THEN Outcome(self, <<>>, Panic, 0)
                         ELSE Outcome([s2 EXCEPT !.balances =
                                         insert(s2.balances, to, sum.v)],
                                      <<TransferEvent(from, to, amount)>>, Ok, 0)
                           : sum \in Add(to_balance, amount)}

\* Variant: the allowance guard is missing and the write-back saturates at 0.
transfer_from_NoAllowanceCheck(self, caller, from, to, amount) ==
  LET caller_allowance == allowance(self, from, caller)
  IN  LET s1 == [self EXCEPT !.allowances =
                        insert(self.allowances, <<from, caller>>,
                               IF caller_allowance < amount THEN 0
                               ELSE caller_allowance - amount)]
               from_balance == balance_of(s1, from)
           IN  IF from_balance < amount
               THEN {Outcome(s1, <<>>, InsufficientBalance, 0)}
               ELSE LET s2 == [s1 EXCEPT !.balances =
                                 insert(s1.balances, from, from_balance - amount)]
                        to_balance == balance_of(s2, to)
                    IN  {IF sum.panic
                         THEN Outcome(self, <<>>, Panic, 0)
                         ELSE Outcome([s2 EXCEPT !.balances =
                                         insert(s2.balances, to, sum.v)],
                                      <<TransferEvent(from, to, amount)>>, Ok, 0)
                           : sum \in Add(to_balance, amount)}

\* Variant: the balance guard is from_balance <= amount.
transfer_from_StrictBalance(self, caller, from, to, amount) ==
  LET caller_allowance == allowance(self, from, caller)
  IN  IF caller_allowance < amount
      THEN {Outcome(self, <<>>, InsufficientAllowance, 0)}
      ELSE LET s1 == [self EXCEPT !.allowances =
                        insert(self.allowances, <<from, caller>>,
                               caller_allowance - amount)]
               from_balance == balance_of(s1, from)
           IN  IF from_balance <= amount
               THEN {Outcome(s1, <<>>, InsufficientBalance, 0)}
               ELSE LET s2 == [s1 EXCEPT !.balances =
                                 insert(s1.balances, from, from_balance - amount)]
                        to_balance == balance_of(s2, to)
                    IN  {IF sum.panic
                         THEN Outcome(self, <<>>, Panic, 0)
                         ELSE Outcome([s2 EXCEPT !.balances =
                                         insert(s2.balances, to, sum.v)],
                                      <<TransferEvent(from, to, amount)>>, Ok, 0)
                           : sum \in Add(to_balance, amount)}

transfer_from(self, caller, from, to, amount) ==
  LET caller_allowance == allowance(self, from, caller)
  IN  IF caller_allowance < amount
      THEN {Outcome(self, <<>>, InsufficientAllowance, 0)}
      ELSE LET s1 == [self EXCEPT !.allowances =
                        insert(self.allowances, <<from, caller>>,
                               caller_allowance - amount)]
               from_balance == balance_of(s1, from)
           IN  IF from_balance < amount
               THEN {Outcome(s1, <<>>, InsufficientBalance, 0)}
               ELSE LET s2 == [s1 EXCEPT !.balances =
                                 insert(s1.balances, from, from_balance - amount)]
                        to_balance == balance_of(s2, to)
                    IN  {IF sum.panic
                         THEN Outcome(self, <<>>, Panic, 0)
                         ELSE Outcome([s2 EXCEPT !.balances =
                                         insert(s2.balances, to, sum.v)],
                                      <<TransferEvent(from, to, amount)>>, Ok, 0)
                           : sum \in Add(to_balance, amount)}

\* Variant: the new value is added to the previous allowance.
approve_Additive(self, caller, spender, amount) ==
  LET owner == caller
  IN  {Outcome([self EXCEPT !.allowances =
                  insert(self.allowances, <<owner, spender>>,
                         (allowance(self, owner, spender) + amount) % Modulus)],
               <<ApprovalEvent(owner, spender, amount)>>, Ok, 0)}

\* Variant: the Approval event carries owner and spender swapped.
approve_SwappedEvent(self, caller, spender, amount) ==
  LET owner == caller
  IN  {Outcome([self EXCEPT !.allowances =
                  insert(self.allowances, <<owner, spender>>, amount)],
               <<ApprovalEvent(spender, owner, amount)>>, Ok, 0)}

approve(self, caller, spender, amount) ==
  LET owner == caller
  IN  {Outcome([self EXCEPT !.allowances =
                  insert(self.allowances, <<owner, spender>>, amount)],
               <<ApprovalEvent(owner, spender, amount)>>, Ok, 0)}

(* ------------------- the messages, statement by statement ------------- *)
\* The same code read as the sequence of arithmetic, table writes and
\* event reports each message performs, in program order, paired with the
\* result it then returns.
SubStep(a, b) == [step |-> "sub", a |-> a, b |-> b]
AddStep(a, b) == [step |-> "add", a |-> a, b |-> b]
WriteStep(table, key, v) == [step |-> "write", table |-> table, key |-> key, v |-> v]
EmitStep(event) == [step |-> "emit", event |-> event]
Ran(steps, result) == [steps |-> steps, result |-> result]

new_steps(caller, supply) ==
  {Ran(<<WriteStep("balances", caller, supply),
         EmitStep(TransferEvent(ZeroAccount, caller, supply))>>, Ok)}

\* Variant: from_balance - amount is computed before the guard.
transfer_steps_SubBeforeGuard(self, caller, to, amount) ==
  LET from == caller
      from_balance == unwrap_or_default(get(self.balances, from))
  IN  IF from_balance < amount
      THEN {Ran(<<SubStep(from_balance, amount)>>, InsufficientBalance)}
      ELSE LET b1 == insert(self.balances, from, from_balance - amount)
               to_balance == unwrap_or_default(get(b1, to))
               debit == <<SubStep(from_balance, amount),
                          WriteStep("balances", from, from_balance - amount)>>
           IN  {IF sum.panic
                THEN Ran(debit \o <<AddStep(to_balance, amount)>>, Panic)
                ELSE Ran(debit \o <<AddStep(to_balance, amount),
                                    WriteStep("balances", to, sum.v),
                                    EmitStep(TransferEvent(from, to, amount))>>, Ok)
                  : sum \in Add(to_balance, amount)}

\* Variant: the recipient's balance is read before the debit is written.
transfer_steps_StaleCredit(self, caller, to, amount) ==
  LET from == caller
      from_balance == unwrap_or_default(get(self.balances, from))
      to_balance == unwrap_or_default(get(self.balances, to))
  IN  IF from_balance < amount
      THEN {Ran(<<>>, InsufficientBalance)}
      ELSE LET debit == <<SubStep(from_balance, amount),
                          WriteStep("balances", from, from_balance - amount)>>
           IN  {IF sum.panic
                THEN Ran(debit \o <<AddStep(to_balance, amount)>>, Panic)
                ELSE Ran(debit \o <<AddStep(to_balance, amount),
                                    WriteStep("balances", to, sum.v),
                                    EmitStep(TransferEvent(from, to, amount))>>, Ok)
                  : sum \in Add(to_balance, amount)}

transfer_steps(self, caller, to, amount) ==
  LET from == caller
      from_balance == unwrap_or_default(get(self.balances, from))
  IN  IF from_balance < amount
      THEN {Ran(<<>>, InsufficientBalance)}
      ELSE LET b1 == insert(self.balances, from, from_balance - amount)
               to_balance == unwrap_or_default(get(b1, to))
               debit == <<SubStep(from_balance, amount),
                          WriteStep("balances", from, from_balance - amount)>>
           IN  {IF sum.panic
                THEN Ran(debit \o <<AddStep(to_balance, amount)>>, Panic)
                ELSE Ran(debit \o <<AddStep(to_balance, amount),
                                    WriteStep("balances", to, sum.v),
                                    EmitStep(TransferEvent(from, to, amount))>>, Ok)
                  : sum \in Add(to_balance, amount)}

transfer_from_steps(self, caller, from, to, amount) ==
  LET caller_allowance == allowance(self, from, caller)
  IN  IF caller_allowance < amount
      THEN {Ran(<<>>, InsufficientAllowance)}
      ELSE LET spend == <<SubStep(caller_allowance, amount),
                          WriteStep("allowances", <<from, caller>>,
                                    caller_allowance - amount)>>
               from_balance == balance_of(self, from)
           IN  IF from_balance < amount
               THEN {Ran(spend, InsufficientBalance)}
               ELSE LET b1 == insert(self.balances, from, from_balance - amount)
                        to_balance == unwrap_or_default(get(b1, to))
                        debit == <<SubStep(from_balance, amount),
                                   WriteStep("balances", from,
                                             from_balance - amount)>>
                    IN  {IF sum.panic
                         THEN Ran(spend \o debit \o
                                    <<AddStep(to_balance, amount)>>, Panic)
                         ELSE Ran(spend \o debit \o
                                    <<AddStep(to_balance, amount),
                                      WriteStep("balances", to, sum.v),
                                      EmitStep(TransferEvent(from, to, amount))>>,
                                  Ok)
                           : sum \in Add(to_balance, amount)}

\* Variant: the Approval event is reported before the allowance is written.
approve_steps_EmitFirst(self, caller, spender, amount) ==
  LET owner == caller
  IN  {Ran(<<EmitStep(ApprovalEvent(owner, spender, amount)),
             WriteStep("allowances", <<owner, spender>>, amount)>>, Ok)}

approve_steps(self, caller, spender, amount) ==
  LET owner == caller
  IN  {Ran(<<WriteStep("allowances", <<owner, spender>>, amount),
             EmitStep(ApprovalEvent(owner, spender, amount))>>, Ok)}

\* The statements of the message a call record names; the queries have none.
StepsOf(self, call) ==
  CASE call.op = "transfer" ->
         transfer_steps(self, call.caller, call.args.to, call.args.amount)
    [] call.op = "transfer_from" ->
         transfer_from_steps(self, call.caller, call.args.from, call.args.to,
                             call.args.amount)
    [] call.op = "approve" ->
         approve_steps(self, call.caller, call.args.spender, call.args.amount)
    [] OTHER -> {Ran(<<>>, Ok)}

(* ------------------------------ actions -------------------------------- *)
\* The record of a call: the message, the caller the environment reports,
\* the arguments, and (once it has run) what it returned and emitted.
Call(op, caller, args) ==
  [op |-> op, caller |-> caller, args |-> args,
   result |-> Ok, value |-> 0, emitted |-> <<>>, steps |-> <<>>]

\* No storage exists before the constructor has run.
NoStorage ==
  [total_supply |-> 0, balances |-> EmptyMapping, allowances |-> EmptyMapping]

\* History kept beside the contract, from the calls and their results only.
\* expected: the events an observer of the calls expects, in order.
ExpectedOf(call, result) ==
  CASE call.op = "new" ->
         <<TransferEvent(ZeroAccount, call.caller, call.args.total_supply)>>
    [] call.op = "transfer" /\ result = Ok ->
         <<TransferEvent(call.caller, call.args.to, call.args.amount)>>
    [] call.op = "transfer_from" /\ result = Ok ->
         <<TransferEvent(call.args.from, call.args.to, call.args.amount)>>
    [] call.op = "approve" /\ result = Ok ->
         <<ApprovalEvent(call.caller, call.args.spender, call.args.amount)>>
    [] OTHER -> <<>>

\* audit: per (owner, spender), the value of the latest approve, the amount
\* the spender has moved out of the owner since, and both totals of the run.
NoAudit ==
  [p \in AccountId \X AccountId |->
     [approved |-> 0, spent |-> 0, granted |-> 0, moved |-> 0]]

AuditOf(a, call, result) ==
  CASE call.op = "approve" /\ result = Ok ->
         [a EXCEPT ![<<call.caller, call.args.spender>>] =
            [approved |-> call.args.amount, spent |-> 0,
             granted |-> @.granted + call.args.amount, moved |-> @.moved]]
    [] call.op = "transfer_from" /\ result = Ok ->
         [a EXCEPT ![<<call.args.from, call.caller>>] =
            [@ EXCEPT !.spent = @ + call.args.amount,
                      !.moved = @ + call.args.amount]]
    [] OTHER -> a

\* Run one message to completion: storage and the event sink take one of
\* its outcomes; pre and last record the storage before it and the call.
Commit(outs, call) ==
  \E out \in outs, ran \in StepsOf(Self, call) :
    \* both readings are of one run: it panicked on overflow or it did not
    /\ (ran.result = Panic) <=> (out.result = Panic)
    /\ total_supply' = out.storage.total_supply
    /\ balances' = out.storage.balances
    /\ allowances' = out.storage.allowances
    /\ events' = events \o out.emitted
    /\ pre' = Self
    /\ last' = [call EXCEPT !.result = out.result, !.value = out.value,
                            !.emitted = out.emitted, !.steps = ran.steps]
    /\ nops' = nops + 1
    /\ expected' = expected \o ExpectedOf(call, out.result)
    /\ audit' = AuditOf(audit, call, out.result)
    /\ UNCHANGED ctor

Init ==
  \E caller \in AccountId, supply \in Balance :
    LET out == new(caller, supply)
        ran == CHOOSE r \in new_steps(caller, supply) : TRUE
    IN  /\ total_supply = out.storage.total_supply
        /\ balances = out.storage.balances
        /\ allowances = out.storage.allowances
        /\ events = out.emitted
        /\ ctor = [caller |-> caller, total_supply |-> supply]
        /\ pre = NoStorage
        /\ last = [Call("new", caller, [total_supply |-> supply])
                     EXCEPT !.emitted = out.emitted, !.steps = ran.steps]
        /\ nops = 0
        /\ expected = ExpectedOf(Call("new", caller, [total_supply |-> supply]),
                                 out.result)
        /\ audit = NoAudit

Transfer ==
  /\ nops < MaxOps
  /\ \E caller \in AccountId, to \in AccountId, amount \in Balance :
       Commit(transfer(Self, caller, to, amount),
              Call("transfer", caller, [to |-> to, amount |-> amount]))

TransferFrom ==
  /\ nops < MaxOps
  /\ \E caller \in AccountId, from \in AccountId, to \in AccountId,
        amount \in Balance :
       Commit(transfer_from(Self, caller, from, to, amount),
              Call("transfer_from", caller,
                   [from |-> from, to |-> to, amount |-> amount]))

Approve ==
  /\ nops < MaxOps
  /\ \E caller \in AccountId, spender \in AccountId, amount \in Balance :
       Commit(approve(Self, caller, spender, amount),
              Call("approve", caller, [spender |-> spender, amount |-> amount]))

\* The queries take &self and never ask the environment for the caller.
NoCaller == "none"

TotalSupply ==
  /\ nops < MaxOps
  /\ Commit({Outcome(Self, <<>>, Ok, total_supply_msg(Self))},
            Call("total_supply", NoCaller, [none |-> 0]))

BalanceOf ==
  /\ nops < MaxOps
  /\ \E account \in AccountId :
       Commit({Outcome(Self, <<>>, Ok, balance_of(Self, account))},
              Call("balance_of", NoCaller, [account |-> account]))

Allowance ==
  /\ nops < MaxOps
  /\ \E owner \in AccountId, spender \in AccountId :
       Commit({Outcome(Self, <<>>, Ok, allowance(Self, owner, spender))},
              Call("allowance", NoCaller, [owner |-> owner, spender |-> spender]))

Next ==
  \/ Transfer
  \/ TransferFrom
  \/ Approve
  \/ TotalSupply
  \/ BalanceOf
  \/ Allowance

Spec == Init /\ [][Next]_vars

\* Runs of approve and transfer_from alone, one message longer: room for an
\* approve followed by two delegated transfers.  To keep them few, the
\* contract is the one a non-zero account constructs with the largest supply.
MaxSpendOps == 3

InitSpend ==
  /\ Init
  /\ ctor.caller = 1
  /\ ctor.total_supply = Modulus - 1

ApproveSpend ==
  /\ nops < MaxSpendOps
  /\ \E caller \in AccountId, spender \in AccountId, amount \in Balance :
       Commit(approve(Self, caller, spender, amount),
              Call("approve", caller, [spender |-> spender, amount |-> amount]))

TransferFromSpend ==
  /\ nops < MaxSpendOps
  /\ \E caller \in AccountId, from \in AccountId, to \in AccountId,
        amount \in Balance :
       Commit(transfer_from(Self, caller, from, to, amount),
              Call("transfer_from", caller,
                   [from |-> from, to |-> to, amount |-> amount]))

NextSpend ==
  \/ ApproveSpend
  \/ TransferFromSpend

SpecSpend == InitSpend /\ [][NextSpend]_vars

(* ===================== observations used by the claims ================== *)
\* What the queries report for every key: the externally visible tables.
BalancesView(self) == [a \in AccountId |-> balance_of(self, a)]
Pairs == AccountId \X AccountId
AllowancesView(self) == [p \in Pairs |-> allowance(self, p[1], p[2])]

RECURSIVE SumBalances(_, _)
SumBalances(self, accounts) ==
  IF accounts = {} THEN 0
  ELSE LET a == CHOOSE x \in accounts : TRUE
       IN  balance_of(self, a) + SumBalances(self, accounts \ {a})

IsTransfer == last.op = "transfer"
IsTransferFrom == last.op = "transfer_from"
IsApprove == last.op = "approve"

(* ================================ C1 ==================================== *)
\* C1: conservation.  After construction with total_supply = N and after
\* every message, succeeding or failing, the balances of all accounts sum
\* to N and total_supply() returns N.
C1_Conservation ==
  /\ SumBalances(Self, AccountId) = ctor.total_supply
  /\ total_supply_msg(Self) = ctor.total_supply

\* A delegated transfer has moved a non-zero amount between two accounts.
C1_Witness ==
  /\ IsTransferFrom /\ last.result = Ok
  /\ last.args.amount > 0 /\ last.args.from # last.args.to
  /\ C1_Conservation

(* ================================ C2 ==================================== *)
\* C2: a transfer_from whose caller has allowance >= amount while from has
\* balance < amount fails with InsufficientBalance and leaves every
\* allowance and every balance as before the call, reporting no event.
C2_FailedTransferFromNoChange ==
  (/\ IsTransferFrom
   /\ allowance(pre, last.args.from, last.caller) >= last.args.amount
   /\ balance_of(pre, last.args.from) < last.args.amount)
  => /\ last.result = InsufficientBalance
     /\ AllowancesView(Self) = AllowancesView(pre)
     /\ BalancesView(Self) = BalancesView(pre)
     /\ last.emitted = <<>>

(* ================================ C3 ==================================== *)
\* C3: a successful transfer_from(from, to, amount) by caller c, from # to,
\* lowers allowance(from, c) and balance_of(from) by amount, raises
\* balance_of(to) by amount, changes no other balance or allowance and
\* reports exactly Transfer(from, to, amount); when it directly follows
\* approve(c, amount) by from, allowance(from, c) ends at 0.
C3_TransferFromSuccess ==
  (IsTransferFrom /\ last.result = Ok /\ last.args.from # last.args.to)
  => LET from == last.args.from
         to == last.args.to
         amount == last.args.amount
         c == last.caller
     IN  /\ allowance(Self, from, c) = allowance(pre, from, c) - amount
         /\ balance_of(Self, from) = balance_of(pre, from) - amount
         /\ balance_of(Self, to) = balance_of(pre, to) + amount
         /\ \A a \in AccountId \ {from, to} :
              balance_of(Self, a) = balance_of(pre, a)
         /\ \A p \in Pairs \ {<<from, c>>} :
              allowance(Self, p[1], p[2]) = allowance(pre, p[1], p[2])
         /\ last.emitted = <<TransferEvent(from, to, amount)>>
         \* every message so far emitted, and the one before this was the approve
         /\ (/\ Len(events) = nops + 1
             /\ events[Len(events) - 1] = ApprovalEvent(from, c, amount))
            => allowance(Self, from, c) = 0

\* approve(c, X) by the owner, then transfer_from of X by c to a third account.
C3_Witness ==
  /\ IsTransferFrom /\ last.result = Ok
  /\ last.args.amount > 0
  /\ Cardinality({last.caller, last.args.from, last.args.to}) = 3
  /\ Len(events) = nops + 1
  /\ events[Len(events) - 1] =
       ApprovalEvent(last.args.from, last.caller, last.args.amount)
  /\ allowance(Self, last.args.from, last.caller) = 0

(* ================================ C4 ==================================== *)
\* C4: whenever allowance(from, caller) < amount, transfer_from returns
\* InsufficientAllowance, changes no balance and no allowance entry and
\* reports no event.
C4_InsufficientAllowance ==
  (/\ IsTransferFrom
   /\ allowance(pre, last.args.from, last.caller) < last.args.amount)
  => /\ last.result = InsufficientAllowance
     /\ balances = pre.balances
     /\ allowances = pre.allowances
     /\ last.emitted = <<>>

\* approve(c, X) then transfer_from of more than X, with from able to pay.
C4_Witness ==
  /\ IsTransferFrom
  /\ allowance(pre, last.args.from, last.caller) > 0
  /\ allowance(pre, last.args.from, last.caller) < last.args.amount
  /\ balance_of(pre, last.args.from) >= last.args.amount
  /\ last.result = InsufficientAllowance

(* ================================ C5 ==================================== *)
\* C5: whenever the caller's balance is less than amount, transfer returns
\* InsufficientBalance, changes no balance and no allowance entry and
\* reports no event.
C5_TransferInsufficientBalance ==
  (IsTransfer /\ balance_of(pre, last.caller) < last.args.amount)
  => /\ last.result = InsufficientBalance
     /\ balances = pre.balances
     /\ allowances = pre.allowances
     /\ last.emitted = <<>>

\* A caller holding something asks to move more than it holds.
C5_Witness ==
  /\ IsTransfer
  /\ balance_of(pre, last.caller) > 0
  /\ balance_of(pre, last.caller) < last.args.amount
  /\ last.result = InsufficientBalance

(* ================================ C6 ==================================== *)
\* C6: whenever the caller's balance is at least amount and to # caller,
\* transfer returns Ok, lowers the caller's balance by amount, raises
\* balance_of(to) by amount, leaves every other balance unchanged and
\* reports exactly Transfer(caller, to, amount).
C6_TransferSuccess ==
  (/\ IsTransfer
   /\ balance_of(pre, last.caller) >= last.args.amount
   /\ last.args.to # last.caller)
  => LET from == last.caller
         to == last.args.to
         amount == last.args.amount
     IN  /\ last.result = Ok
         /\ balance_of(Self, from) = balance_of(pre, from) - amount
         /\ balance_of(Self, to) = balance_of(pre, to) + amount
         /\ \A a \in AccountId \ {from, to} :
              balance_of(Self, a) = balance_of(pre, a)
         /\ last.emitted = <<TransferEvent(from, to, amount)>>

\* The caller moves its whole non-zero balance to an account that already
\* holds something.
C6_Witness ==
  /\ IsTransfer /\ last.result = Ok
  /\ last.args.to # last.caller
  /\ last.args.amount > 0
  /\ balance_of(pre, last.caller) = last.args.amount
  /\ balance_of(pre, last.args.to) > 0

(* ================================ C7 ==================================== *)
\* C7: approve(spender, amount) always returns Ok and afterwards
\* allowance(caller, spender) = amount, whatever the caller's balance and
\* the previous allowance (overwritten, never added to); it changes no
\* balance and reports exactly Approval(caller, spender, amount).
C7_ApproveOverwrites ==
  IsApprove
  => /\ last.result = Ok
     /\ allowance(Self, last.caller, last.args.spender) = last.args.amount
     /\ balances = pre.balances
     /\ last.emitted =
          <<ApprovalEvent(last.caller, last.args.spender, last.args.amount)>>

\* A second approve with a lower non-zero value, by an owner holding nothing.
C7_Witness ==
  /\ IsApprove
  /\ last.args.amount > 0
  /\ allowance(pre, last.caller, last.args.spender) > last.args.amount
  /\ balance_of(pre, last.caller) = 0
  /\ allowance(Self, last.caller, last.args.spender) = last.args.amount

(* ================================ C8 ==================================== *)
\* C8: immediately after new(.., N) called by c: balance_of(c) = N, every
\* other balance is 0, every allowance is 0, total_supply() = N and exactly
\* one event has been reported, Transfer(zero identity, c, N).
C8_Construction ==
  nops = 0
  => /\ balance_of(Self, ctor.caller) = ctor.total_supply
     /\ \A a \in AccountId \ {ctor.caller} : balance_of(Self, a) = 0
     /\ \A p \in Pairs : allowance(Self, p[1], p[2]) = 0
     /\ total_supply_msg(Self) = ctor.total_supply
     /\ events = <<TransferEvent(ZeroAccount, ctor.caller, ctor.total_supply)>>

\* Constructed by a non-zero identity with a non-zero supply.
C8_Witness ==
  /\ nops = 0 /\ last.op = "new"
  /\ ctor.caller # ZeroAccount
  /\ ctor.total_supply > 0
  /\ balance_of(Self, ctor.caller) = ctor.total_supply

(* ================================ C9 ==================================== *)
\* C9: self-transfer.  transfer(to, amount) with to = caller and amount <=
\* balance, and a successful transfer_from(from, to, amount) with to = from,
\* leave every balance as before and report one Transfer event.
C9_SelfTransfer ==
  /\ (/\ IsTransfer
      /\ last.args.to = last.caller
      /\ last.args.amount <= balance_of(pre, last.caller))
     => /\ last.result = Ok
        /\ BalancesView(Self) = BalancesView(pre)
        /\ last.emitted =
             <<TransferEvent(last.caller, last.caller, last.args.amount)>>
  /\ (IsTransferFrom /\ last.args.to = last.args.from /\ last.result = Ok)
     => /\ BalancesView(Self) = BalancesView(pre)
        /\ last.emitted =
             <<TransferEvent(last.args.from, last.args.from, last.args.amount)>>

\* A spender moves a non-zero amount from an owner to that same owner.
C9_Witness ==
  /\ IsTransferFrom /\ last.result = Ok
  /\ last.args.to = last.args.from
  /\ last.caller # last.args.from
  /\ last.args.amount > 0
  /\ BalancesView(Self) = BalancesView(pre)

(* ================================ C10 =================================== *)
\* Allowance tables to run transfer against: the empty one, the full
\* constant ones, and the given one with any single entry set.
AltAllowances(cur) ==
  {EmptyMapping}
    \cup {[p \in Pairs |-> v] : v \in Balance}
    \cup {insert(cur, p, v) : p \in Pairs, v \in Balance}

\* Of a message's outcomes, what does not lie in the allowance table.
Observed(outs) ==
  {[result |-> o.result, balances |-> o.storage.balances,
    emitted |-> o.emitted] : o \in outs}

\* C10: transfer never consults or modifies the allowance table: every
\* allowance entry is unchanged after any transfer call, and the call's
\* result, balances and event are what it gives on any other allowances.
C10_TransferIgnoresAllowances ==
  IsTransfer
  => /\ allowances = pre.allowances
     /\ \A alt \in AltAllowances(pre.allowances) :
          /\ Observed(transfer([pre EXCEPT !.allowances = alt],
                               last.caller, last.args.to, last.args.amount))
               = {[result |-> last.result, balances |-> balances,
                   emitted |-> last.emitted]}
          /\ \A o \in transfer([pre EXCEPT !.allowances = alt],
                               last.caller, last.args.to, last.args.amount) :
               o.storage.allowances = alt

\* A transfer moved a non-zero amount while an allowance was outstanding.
C10_Witness ==
  /\ IsTransfer /\ last.result = Ok
  /\ last.args.amount > 0
  /\ \E p \in Pairs : allowance(pre, p[1], p[2]) > 0
  /\ allowances = pre.allowances

(* ============== the statements of the last message ===================== *)
StepIndices == 1 .. Len(last.steps)
IsMutating == last.op \in {"new", "transfer", "approve", "transfer_from"}

\* The table writes of a statement sequence applied to a storage, and the
\* events it reports.
RECURSIVE Replay(_, _)
Replay(self, steps) ==
  IF steps = <<>> THEN self
  ELSE LET st == Head(steps)
           next == IF st.step # "write" THEN self
                   ELSE IF st.table = "balances"
                   THEN [self EXCEPT !.balances = insert(@, st.key, st.v)]
                   ELSE [self EXCEPT !.allowances = insert(@, st.key, st.v)]
       IN  Replay(next, Tail(steps))

RECURSIVE Reported(_)
Reported(steps) ==
  IF steps = <<>> THEN <<>>
  ELSE IF Head(steps).step = "emit"
       THEN <<Head(steps).event>> \o Reported(Tail(steps))
       ELSE Reported(Tail(steps))

\* The statement reading and the outcome reading of a message agree: the
\* writes give the storage after it and the reports give its events.
StepsAgree ==
  /\ Reported(last.steps) = last.emitted
  /\ last.op = "new"
       => Replay([NoStorage EXCEPT !.total_supply = ctor.total_supply],
                 last.steps) = Self
  /\ last.op # "new" => Replay(pre, last.steps) = Self

(* ================================ C11 =================================== *)
\* C11: overflow on credit is unreachable.  Whenever transfer or
\* transfer_from computes to_balance + amount, the sum is at most
\* total_supply, hence inside the range of Balance, and the message does
\* not panic.
C11_NoOverflowOnCredit ==
  /\ total_supply < Modulus
  /\ last.result # Panic
  /\ \A i \in StepIndices :
       last.steps[i].step = "add"
       => /\ last.steps[i].a + last.steps[i].b <= total_supply
          /\ last.steps[i].a + last.steps[i].b < Modulus

\* A credit that brings the recipient to the largest value of the type.
C11_Witness ==
  /\ IsTransfer /\ last.result = Ok
  /\ \E i \in StepIndices :
       /\ last.steps[i].step = "add"
       /\ last.steps[i].a > 0 /\ last.steps[i].b > 0
       /\ last.steps[i].a + last.steps[i].b = Modulus - 1

(* ================================ C12 =================================== *)
\* C12: non-negativity.  No stored or reported balance or allowance is
\* negative, and every subtraction transfer and transfer_from execute has
\* a minuend at least as large as the amount subtracted.
C12_NonNegativity ==
  /\ \A k \in DOMAIN balances : balances[k] >= 0
  /\ \A k \in DOMAIN allowances : allowances[k] >= 0
  /\ \A a \in AccountId : balance_of(Self, a) >= 0
  /\ \A p \in Pairs : allowance(Self, p[1], p[2]) >= 0
  /\ \A i \in StepIndices :
       last.steps[i].step = "sub" => last.steps[i].a >= last.steps[i].b

\* A delegated transfer that uses up the whole allowance: both of its
\* subtractions ran, one of them down to zero.
C12_Witness ==
  /\ IsTransferFrom /\ last.result = Ok /\ last.args.amount > 0
  /\ Cardinality({i \in StepIndices : last.steps[i].step = "sub"}) = 2
  /\ \E i \in StepIndices :
       last.steps[i].step = "sub" /\ last.steps[i].a = last.steps[i].b

(* ================================ C13 =================================== *)
\* C13: within construction, transfer, approve and transfer_from the event
\* is reported after all of the message's writes to the balance and
\* allowance tables, never before any of them.
C13_EventAfterWrites ==
  IsMutating
  => /\ Reported(last.steps) = last.emitted
     /\ \A i \in StepIndices, j \in StepIndices :
          (last.steps[i].step = "emit" /\ last.steps[j].step = "write")
          => j < i

\* A delegated transfer: three table writes, then its event.
C13_Witness ==
  /\ IsTransferFrom /\ last.result = Ok
  /\ Cardinality({j \in StepIndices : last.steps[j].step = "write"}) = 3
  /\ last.steps[Len(last.steps)].step = "emit"

(* ================================ C14 =================================== *)
\* A storage without its zero-valued entries, and one with a zero stored
\* under every key that had no entry.
Strip(self) ==
  [self EXCEPT
     !.balances = [k \in {x \in DOMAIN self.balances : self.balances[x] # 0}
                     |-> self.balances[k]],
     !.allowances = [k \in {x \in DOMAIN self.allowances : self.allowances[x] # 0}
                       |-> self.allowances[k]]]

Fill(self) ==
  [self EXCEPT
     !.balances = [k \in AccountId |-> unwrap_or_default(get(self.balances, k))],
     !.allowances = [k \in Pairs |-> unwrap_or_default(get(self.allowances, k))]]

\* Two storages no query tells apart.
Equivalent(s1, s2) ==
  /\ total_supply_msg(s1) = total_supply_msg(s2)
  /\ BalancesView(s1) = BalancesView(s2)
  /\ AllowancesView(s1) = AllowancesView(s2)

\* The message a call record names, run on a given storage.
RunOn(self, call) ==
  CASE call.op = "transfer" ->
         transfer(self, call.caller, call.args.to, call.args.amount)
    [] call.op = "transfer_from" ->
         transfer_from(self, call.caller, call.args.from, call.args.to,
                       call.args.amount)
    [] call.op = "approve" ->
         approve(self, call.caller, call.args.spender, call.args.amount)
    [] call.op = "total_supply" ->
         {Outcome(self, <<>>, Ok, total_supply_msg(self))}
    [] call.op = "balance_of" ->
         {Outcome(self, <<>>, Ok, balance_of(self, call.args.account))}
    [] call.op = "allowance" ->
         {Outcome(self, <<>>, Ok,
                  allowance(self, call.args.owner, call.args.spender))}

IsQuery == last.op \in {"total_supply", "balance_of", "allowance"}

\* C14: an absent entry behaves like a stored zero.  The queries return 0
\* for keys without an entry and change no state; and the last message,
\* run on the storage before it with the zero entries removed or with
\* zeros stored everywhere, gives the same result, value and events and a
\* storage no query tells apart from the actual one.
C14_AbsentIsZero ==
  /\ (last.op = "balance_of" /\ last.args.account \notin DOMAIN pre.balances)
     => last.value = 0
  /\ (last.op = "allowance"
      /\ <<last.args.owner, last.args.spender>> \notin DOMAIN pre.allowances)
     => last.value = 0
  /\ IsQuery => (Self = pre /\ last.emitted = <<>>)
  /\ last.op # "new"
     => \A alt \in {Strip(pre), Fill(pre)} :
          /\ Equivalent(alt, pre)
          /\ \A o \in RunOn(alt, last) :
               /\ o.result = last.result
               /\ o.value = last.value
               /\ o.emitted = last.emitted
               /\ Equivalent(o.storage, Self)

\* A transfer credits an account whose stored balance is zero, while other
\* keys have no entry at all.
C14_Witness ==
  /\ IsTransfer /\ last.result = Ok /\ last.args.amount > 0
  /\ last.args.to \in DOMAIN pre.balances
  /\ pre.balances[last.args.to] = 0
  /\ Strip(pre) # pre
  /\ Fill(pre) # pre
  /\ Fill(pre) # Strip(pre)

(* ================================ C15 =================================== *)
IsApproveOf(p) ==
  IsApprove /\ last.caller = p[1] /\ last.args.spender = p[2]
IsTransferFromOf(p) ==
  IsTransferFrom /\ last.args.from = p[1] /\ last.caller = p[2]

\* C15: for every pair (o, s), allowance(o, s) rises only in an approve
\* called by o naming s; every other step leaves it the same or lower, and
\* of those only a transfer_from called by s with from = o lowers it.
C15_AllowanceFrame ==
  \A p \in Pairs :
    /\ allowance(Self, p[1], p[2]) > allowance(pre, p[1], p[2])
       => IsApproveOf(p)
    /\ allowance(Self, p[1], p[2]) < allowance(pre, p[1], p[2])
       => (IsTransferFromOf(p) \/ IsApproveOf(p))

\* A delegated transfer lowered the allowance of its own (from, caller)
\* pair by the amount moved.
C15_Witness ==
  /\ IsTransferFrom /\ last.result = Ok /\ last.args.amount > 0
  /\ last.caller # last.args.from
  /\ allowance(Self, last.args.from, last.caller)
       = allowance(pre, last.args.from, last.caller) - last.args.amount

(* ================================ C16 =================================== *)
\* C16: the result of transfer_from is determined by the state before it:
\* InsufficientAllowance iff allowance(from, caller) < amount (whatever the
\* balance), InsufficientBalance iff the allowance suffices and
\* balance_of(from) < amount, Ok otherwise; transfer returns only Ok or
\* InsufficientBalance and approve only Ok.
C16_ResultDetermined ==
  /\ IsTransferFrom
     => LET enoughAllowance ==
              allowance(pre, last.args.from, last.caller) >= last.args.amount
            enoughBalance ==
              balance_of(pre, last.args.from) >= last.args.amount
        IN  /\ (last.result = InsufficientAllowance) <=> ~enoughAllowance
            /\ (last.result = InsufficientBalance)
                 <=> (enoughAllowance /\ ~enoughBalance)
            /\ (last.result = Ok) <=> (enoughAllowance /\ enoughBalance)
  /\ IsTransfer => last.result \in {Ok, InsufficientBalance}
  /\ IsApprove => last.result = Ok

\* Allowance and balance are both too small: the allowance error wins.
C16_Witness ==
  /\ IsTransferFrom
  /\ allowance(pre, last.args.from, last.caller) > 0
  /\ allowance(pre, last.args.from, last.caller) < last.args.amount
  /\ balance_of(pre, last.args.from) < last.args.amount
  /\ last.result = InsufficientAllowance

(* ================================ C17 =================================== *)
\* C17: no unauthorized transfer.  An account's balance falls only in a
\* transfer it calls itself, or in a transfer_from naming it as from whose
\* caller held an allowance of at least the amount moved.
C17_NoUnauthorizedTransfer ==
  \A a \in AccountId :
    balance_of(Self, a) < balance_of(pre, a)
    => /\ balance_of(pre, a) - balance_of(Self, a) = last.args.amount
       /\ \/ IsTransfer /\ last.caller = a
          \/ /\ IsTransferFrom /\ last.args.from = a
             /\ allowance(pre, a, last.caller) >= last.args.amount

\* A third party moved part of an owner's balance under an allowance.
C17_Witness ==
  /\ IsTransferFrom /\ last.caller # last.args.from
  /\ balance_of(Self, last.args.from) < balance_of(pre, last.args.from)
  /\ allowance(pre, last.args.from, last.caller) >= last.args.amount

(* ================================ C20 =================================== *)
\* C20: zero-amount transfers need no authorization.  transfer(to, 0) and
\* transfer_from(from, to, 0) by any caller return Ok, leave every balance
\* and allowance value as it was and report Transfer(from, to, 0).
C20_ZeroAmountSucceeds ==
  /\ (IsTransfer /\ last.args.amount = 0)
     => /\ last.result = Ok
        /\ BalancesView(Self) = BalancesView(pre)
        /\ AllowancesView(Self) = AllowancesView(pre)
        /\ last.emitted = <<TransferEvent(last.caller, last.args.to, 0)>>
  /\ (IsTransferFrom /\ last.args.amount = 0)
     => /\ last.result = Ok
        /\ BalancesView(Self) = BalancesView(pre)
        /\ AllowancesView(Self) = AllowancesView(pre)
        /\ last.emitted = <<TransferEvent(last.args.from, last.args.to, 0)>>

\* A caller never approved moves 0 out of an account that holds nothing.
C20_Witness ==
  /\ IsTransferFrom /\ last.args.amount = 0 /\ last.result = Ok
  /\ last.caller # last.args.from
  /\ <<last.args.from, last.caller>> \notin DOMAIN pre.allowances
  /\ audit[<<last.args.from, last.caller>>].granted = 0
  /\ balance_of(pre, last.args.from) = 0
  /\ last.emitted = <<TransferEvent(last.args.from, last.args.to, 0)>>

(* ================================ C18 =================================== *)
\* C18: no double-spend of an allowance.  For every pair (o, s): the
\* amounts s has moved out of o by successful transfer_from calls since
\* the latest approve(s, X) by o sum to at most X, what is still allowed
\* on top of them does not exceed X either, and over the whole run s has
\* moved at most the sum of the values o approved for s.
C18_NoDoubleSpend ==
  \A p \in Pairs :
    /\ audit[p].spent <= audit[p].approved
    /\ audit[p].spent + allowance(Self, p[1], p[2]) <= audit[p].approved
    /\ audit[p].moved <= audit[p].granted

\* One approve, then two delegated transfers under it: the second one is
\* stopped by what the first one left of the allowance.
C18_Witness ==
  /\ nops = 3
  /\ IsTransferFrom /\ last.result = InsufficientAllowance
  /\ last.caller # last.args.from
  /\ audit[<<last.args.from, last.caller>>].spent > 0
  /\ audit[<<last.args.from, last.caller>>].spent
       + last.args.amount > audit[<<last.args.from, last.caller>>].approved
  /\ last.args.amount <= audit[<<last.args.from, last.caller>>].approved
  /\ balance_of(pre, last.args.from) >= last.args.amount

(* ================================ C19 =================================== *)
\* C19: the event log is the record of the successful operations: the
\* construction Transfer(zero identity, constructor, N), then in order one
\* Transfer per successful transfer or transfer_from and one Approval per
\* approve, carrying the caller and arguments of the call; failing calls
\* and queries add none.
C19_EventLog ==
  /\ events = expected
  /\ events[1] = TransferEvent(ZeroAccount, ctor.caller, ctor.total_supply)
  /\ (last.result # Ok \/ IsQuery) => last.emitted = <<>>

\* An approve and a delegated transfer under it, both in the log.
C19_Witness ==
  /\ IsTransferFrom /\ last.result = Ok /\ last.args.amount > 0
  /\ Len(events) = 3
  /\ events[2] = ApprovalEvent(last.args.from, last.caller, last.args.amount)
  /\ events[3] = TransferEvent(last.args.from, last.args.to, last.args.amount)

====
